---- MODULE Spec2Model ----
(***************************************************************************)
(* Model of koaning/wallholla: the pretrained-feature cache of utils.py    *)
(* (make_pretrained_filenames, make_pretrained_weights,                    *)
(* get_pretrained_weights), its three configuration helpers, and the two   *)
(* model builders of walholla/models.py (resnet_model, custom_fc_model).   *)
(*                                                                         *)
(* Floats are written as per-mille integers (0.1 is 100, 1/255 is the pair *)
(* <<1, 255>>), a learning rate in units of 0.0001; strings are the        *)
(* strings of the source.                                                  *)
(***************************************************************************)
EXTENDS Integers, Sequences, FiniteSets, TLC

VARIABLES
    files,   \* the file system: path -> the array np.save stored there
    runs,    \* make_pretrained_weights runs started so far
    last,    \* the last get_pretrained_weights call: arguments, outcome, effect
    call     \* the last call of a helper or model builder: arguments, result

vars == <<files, runs, last, call>>

-----------------------------------------------------------------------------
(* Bounds of the model.                                                    *)

\* make_pretrained_weights runs explored in one behaviour
MaxRuns == 3

\* longest layer_definitions, activations and dropouts list given to custom_fc_model
MaxLayers == 3

\* largest depth given to resnet_model
MaxDepth == 5

-----------------------------------------------------------------------------
(* Strings.                                                                *)

EndsWith(s, suffix) ==
    /\ Len(s) >= Len(suffix)
    /\ (Len(suffix) = 0 \/ SubSeq(s, Len(s) - Len(suffix) + 1, Len(s)) = suffix)

StartsWith(s, prefix) ==
    /\ Len(s) >= Len(prefix)
    /\ (Len(prefix) = 0 \/ SubSeq(s, 1, Len(prefix)) = prefix)

\* 'x'.join([str(i) for i in img_size])
RECURSIVE JoinX(_)
JoinX(img_size) ==
    IF Len(img_size) = 0 THEN ""
    ELSE IF Len(img_size) = 1 THEN ToString(img_size[1])
    ELSE ToString(img_size[1]) \o "x" \o JoinX(Tail(img_size))

\* settings.PRETRAINED_PATH: the cache directory
PRETRAINED_PATH == "pretrained"

\* os.path.join(a, b) for two components (posix)
OsPathJoin(a, b) ==
    IF StartsWith(b, "/") THEN b
    ELSE IF a = "" \/ EndsWith(a, "/") THEN a \o b
    ELSE a \o "/" \o b

-----------------------------------------------------------------------------
(* The configuration helpers of utils.py.  A helper returns                *)
(* [raised |-> the exception or "none", value |-> what it returns,         *)
(*  constructed |-> the library objects it constructed, in order].         *)

\* Python's None
None == [class |-> "NoneType"]

Raise(exc) == [raised |-> exc, value |-> None, constructed |-> <<>>]

OptimiserNames == {"adam", "rsmprop", "sgd"}

OptimiserClass(name) ==
    CASE name = "adam" -> "Adam"
      [] name = "rsmprop" -> "RMSprop"
      [] name = "sgd" -> "SGD"

make_optimiser(name, learning_rate) ==
    IF name \notin OptimiserNames THEN Raise("ValueError")
    ELSE LET optimizers == [n \in OptimiserNames |->
                               [class |-> OptimiserClass(n), lr |-> learning_rate]]
         IN [raised |-> "none",
             value |-> optimizers[name],
             constructed |-> <<"Adam", "RMSprop", "SGD">>]

possible_names == {"vgg16", "vgg19", "mobilenet", "xception"}

ApplicationClass(model) ==
    CASE model = "vgg16" -> "VGG16"
      [] model = "vgg19" -> "VGG19"
      [] model = "mobilenet" -> "MobileNet"
      [] model = "xception" -> "Xception"

\* lines 52-56: width, height = img_size raises ValueError unless img_size has
\* exactly two elements; K.image_data_format() is "channels_first" or
\* "channels_last"
InputShape(img_size, data_format) ==
    IF Len(img_size) # 2 THEN [raised |-> "ValueError", shape |-> <<>>]
    ELSE LET width == img_size[1]
             height == img_size[2]
         IN  IF data_format = "channels_first"
             THEN [raised |-> "none", shape |-> <<3, width, height>>]
             ELSE [raised |-> "none", shape |-> <<width, height, 3>>]

get_pretrained_model(model, img_size, data_format) ==
    IF model \notin possible_names THEN Raise("ValueError")
    ELSE LET input_shape == InputShape(img_size, data_format)
             models == [m \in possible_names |->
                           [class |-> ApplicationClass(m),
                            input_shape |-> input_shape.shape,
                            include_top |-> FALSE,
                            weights |-> "imagenet"]]
         IN  IF input_shape.raised # "none" THEN Raise(input_shape.raised)
             ELSE [raised |-> "none",
                   value |-> models[model],
                   constructed |-> <<"VGG16", "VGG19", "MobileNet", "Xception">>]

\* the accepted kinds, were "very-random" left out of the list
GeneratorKindsShort == {"random", "not-random"}

\* line 68
GeneratorKinds == {"random", "very-random", "not-random"}

ImageDataGenerator(shear, zoom, flip) ==
    [class |-> "ImageDataGenerator", rescale |-> <<1, 255>>,
     shear_range |-> shear, zoom_range |-> zoom, horizontal_flip |-> flip]

get_image_generator(kind) ==
    IF kind \notin GeneratorKinds THEN Raise("ValueError")
    ELSE IF kind = "not-random"
    THEN [raised |-> "none", value |-> ImageDataGenerator(0, 0, FALSE),
          constructed |-> <<"ImageDataGenerator">>]
    ELSE IF kind = "random"
    THEN [raised |-> "none", value |-> ImageDataGenerator(100, 100, FALSE),
          constructed |-> <<"ImageDataGenerator">>]
    ELSE IF kind = "very-random"
    THEN [raised |-> "none", value |-> ImageDataGenerator(200, 200, TRUE),
          constructed |-> <<"ImageDataGenerator">>]
    ELSE [raised |-> "none", value |-> None, constructed |-> <<>>]

-----------------------------------------------------------------------------
(* The model builders of walholla/models.py.  A layer is a record with its  *)
(* class and arguments; a dropout rate is in per-mille.                    *)

Min(a, b) == IF a <= b THEN a ELSE b

Repeat(n, v) == [i \in 1..n |-> v]

Dense(units, activation) ==
    [class |-> "Dense", units |-> units, activation |-> activation]

Dropout(rate) == [class |-> "Dropout", rate |-> rate]

\* the loop count, were the loop to run depth times
ResnetBlocksDepth(depth) == IF depth < 0 THEN 0 ELSE depth

\* line 17: range(depth // 2) runs depth // 2 times, and not at all below 0
ResnetBlocks(depth) == IF depth \div 2 < 0 THEN 0 ELSE depth \div 2

\* lines 17-22: the blocks left; nodes is the graph so far, a sequence of
\* [layer, inputs], inputs being the positions of the nodes the layer is
\* applied to; nn is the position of the current tensor
RECURSIVE ResnetLoop(_, _, _, _, _, _)
ResnetLoop(nodes, nn, left, width, activation, dropout) ==
    IF left = 0 THEN [nodes |-> nodes, nn |-> nn]
    ELSE LET nn_odd == Len(nodes) + 1
             nn_even == Len(nodes) + 2
             nn2 == Len(nodes) + 3
             block == nodes \o
                      << [layer |-> Dense(width, activation), inputs |-> <<nn>>],
                         [layer |-> [class |-> "Add"], inputs |-> <<nn, nn_odd>>],
                         [layer |-> Dense(width, activation), inputs |-> <<nn_even>>] >>
         IN  IF dropout > 0
             THEN ResnetLoop(Append(block, [layer |-> Dropout(dropout),
                                            inputs |-> <<nn2>>]),
                             nn2 + 1, left - 1, width, activation, dropout)
             ELSE ResnetLoop(block, nn2, left - 1, width, activation, dropout)

\* Model(inputs, nn): the graph, its input node and its output node
resnet_model(input_dim, output_dim, depth, width, activation, final_activation, dropout) ==
    LET inputs == [layer |-> [class |-> "Input", shape |-> <<input_dim>>],
                   inputs |-> <<>>]
        first == [layer |-> Dense(width, activation), inputs |-> <<1>>]
        body == ResnetLoop(<<inputs, first>>, 2, ResnetBlocks(depth),
                           width, activation, dropout)
        out == [layer |-> Dense(output_dim, final_activation), inputs |-> <<body.nn>>]
    IN  [nodes |-> Append(body.nodes, out), input |-> 1,
         output |-> Len(body.nodes) + 1]

\* An activations argument is a name, [str |-> TRUE, name |-> the name], or a
\* list, [str |-> FALSE, list |-> the list]; a dropouts argument is a number,
\* [scalar |-> TRUE, rate |-> the rate], or a list, [scalar |-> FALSE, list |->
\* the list].  The field that does not apply is "" or 0 or <<>>.

\* the activations, were a name wrapped in a list and not repeated
ActivationsListSingle(layer_definitions, activations) ==
    IF activations.str THEN <<activations.name>> ELSE activations.list

\* lines 64-65
ActivationsList(layer_definitions, activations) ==
    IF activations.str
    THEN Repeat(Len(layer_definitions), activations.name)
    ELSE activations.list

\* lines 67-68: a scalar is repeated len(activations) times
DropoutsList(activations, dropouts) ==
    IF dropouts.scalar THEN Repeat(Len(activations), dropouts.rate) ELSE dropouts.list

\* the test of line 78, were it dropout >= 0
WantsDropoutFromZero(dropout) == dropout >= 0

\* line 78
WantsDropout(dropout) == dropout > 0

\* the first layer, were it given input_dim units
FcDenseInputUnits(i, n_neurons, activation, input_shape) ==
    IF i = 0
    THEN [class |-> "Dense", units |-> input_shape[1], activation |-> activation,
          input_shape |-> input_shape]
    ELSE Dense(n_neurons, activation)

\* lines 74-77: i counts from 0
FcDense(i, n_neurons, activation, input_shape) ==
    IF i = 0
    THEN [class |-> "Dense", units |-> n_neurons, activation |-> activation,
          input_shape |-> input_shape]
    ELSE Dense(n_neurons, activation)

\* lines 70-79: the zip stops at its shortest argument
RECURSIVE FcLoop(_, _, _, _, _, _, _)
FcLoop(layers, i, n, layer_definitions, activations, dropouts, input_shape) ==
    IF i >= n THEN layers
    ELSE LET dense == Append(layers, FcDense(i, layer_definitions[i + 1],
                                             activations[i + 1], input_shape))
         IN  FcLoop(IF WantsDropout(dropouts[i + 1])
                    THEN Append(dense, Dropout(dropouts[i + 1]))
                    ELSE dense,
                    i + 1, n, layer_definitions, activations, dropouts, input_shape)

\* A layer_definitions argument is a list, [sized |-> TRUE, list |-> the list],
\* or a number, [sized |-> FALSE, number |-> the number]; the field that does
\* not apply is <<>> or 0.
SizedArg(list) == [sized |-> TRUE, list |-> list, number |-> 0]

NumberArg(number) == [sized |-> FALSE, list |-> <<>>, number |-> number]

\* [raised |-> the exception or "none", layers |-> the layers of the Sequential
\* model in the order they were added].  len(layer_definitions), at line 65 for
\* a str activations and at line 70 otherwise, raises TypeError for a number.
custom_fc_model(input_dim, layer_definitions, activations, dropouts) ==
    IF ~layer_definitions.sized THEN [raised |-> "TypeError", layers |-> <<>>]
    ELSE LET input_shape == <<input_dim>>
             acts == ActivationsList(layer_definitions.list, activations)
             drops == DropoutsList(acts, dropouts)
             n == Min(Len(layer_definitions.list), Min(Len(acts), Len(drops)))
         IN  [raised |-> "none",
              layers |-> FcLoop(<<>>, 0, n, layer_definitions.list, acts, drops,
                                input_shape)]

\* keras: the shapes of layer.get_weights() of each layer of a Sequential
\* model, in the order of the layers: <<the kernel's shape, the bias' shape>>
\* for a Dense layer, the kernel being (the size of its input, its units), and
\* <<>> for a Dropout layer, which has no weights and keeps the size of its
\* input
RECURSIVE WeightShapes(_, _)
WeightShapes(layers, dim) ==
    IF layers = <<>> THEN <<>>
    ELSE IF Head(layers).class = "Dense"
    THEN << <<<<dim, Head(layers).units>>, <<Head(layers).units>>>> >>
         \o WeightShapes(Tail(layers), Head(layers).units)
    ELSE << <<>> >> \o WeightShapes(Tail(layers), dim)

ModelWeightShapes(layers) ==
    IF layers = <<>> THEN <<>> ELSE WeightShapes(layers, Head(layers).input_shape[1])

\* the defaults of custom_fc_model
DefaultActivations == [str |-> TRUE, name |-> "relu", list |-> <<>>]
DefaultDropouts == [scalar |-> TRUE, rate |-> 0, list |-> <<>>]

\* test_models.py, lines 15-19: the three checks left from the k-th on;
\* layers_by_depth[d][0] is the layer d places before the last one
RECURSIVE TestShapesFrom(_, _, _, _)
TestShapesFrom(layers, weight_matrix_dims, bias_dims, k) ==
    IF k > 3 THEN "passed"
    ELSE LET i_layer == 3 - k
             at == Len(layers) - i_layer
         IN  IF at < 1 THEN "KeyError"
             ELSE LET got == ModelWeightShapes(layers)[at]
                  IN  IF Len(got) # 2 THEN "ValueError"
                      ELSE IF got[1] # weight_matrix_dims[k] THEN "AssertionError"
                      ELSE IF got[2][1] # bias_dims[k] THEN "AssertionError"
                      ELSE TestShapesFrom(layers, weight_matrix_dims, bias_dims, k + 1)

\* test_models.py, lines 8-19: how the test ends; its call gives 1 as
\* layer_definitions and [1.0, 0.5, 2] as activations
test_custom_fc_model ==
    LET model == custom_fc_model(16, NumberArg(1),
                                 [str |-> FALSE, name |-> "",
                                  list |-> <<1000, 500, 2000>>],
                                 DefaultDropouts)
    IN  IF model.raised # "none" THEN model.raised
        ELSE TestShapesFrom(model.layers, <<<<16, 8>>, <<8, 2>>, <<2, 1>>>>,
                            <<8, 2, 1>>, 1)

-----------------------------------------------------------------------------
(* The feature cache of utils.py.                                          *)

\* the four names, in the order of the two nested loops
make_pretrained_filenames(dataset, generator, model, n_img, img_size, npy) ==
    LET base_name == dataset \o "-" \o model \o "-" \o generator \o "-"
                     \o ToString(n_img) \o "-" \o JoinX(img_size)
        settypes == <<"train", "valid">>
        xys == <<"data", "label">>
        names == [k \in 1..4 |->
                    base_name \o "-" \o settypes[((k - 1) \div 2) + 1]
                              \o "-" \o xys[((k - 1) % 2) + 1]]
    IN  IF npy THEN [k \in 1..4 |-> names[k] \o ".npy"] ELSE names

\* np.save taken to store under the very name it is given
NpSavePathVerbatim(file) == file

\* np.save(file, arr): ".npy" is appended to a name that lacks it
NpSavePath(file) == IF EndsWith(file, ".npy") THEN file ELSE file \o ".npy"

\* the state a call threads through its steps
\*   fs: the file system, runs: the run counter, made: runs started by this call,
\*   wrote: the paths this call saved to, outcome: "ok" or the exception raised
NpSave(st, file, arr) ==
    [st EXCEPT !.fs = [p \in DOMAIN st.fs \cup {NpSavePath(file)} |->
                          IF p = NpSavePath(file) THEN arr ELSE st.fs[p]],
               !.wrote = st.wrote \cup {NpSavePath(file)}]

\* the array a run stores as its k-th file (1 train data, 2 train labels,
\* 3 validation data, 4 validation labels): it is a function of the run (the
\* generators shuffle and augment at random) and of the run's arguments
Array(cfg, run, k) == [cfg |-> cfg, run |-> run, part |-> k]

\* K.image_data_format() of the installation (keras' default)
ImageDataFormat == "channels_last"

\* the saves, were a file that is already there kept instead of rewritten
RECURSIVE SaveMissingFrom(_, _, _, _, _, _)
SaveMissingFrom(st, cfg, run, filename, abort, k) ==
    IF abort = <<k - 1>> THEN [st EXCEPT !.outcome = "aborted"]
    ELSE IF k > 4 THEN st
    ELSE SaveMissingFrom(
             IF NpSavePath(OsPathJoin(PRETRAINED_PATH, filename[k])) \in DOMAIN st.fs
             THEN st
             ELSE NpSave(st, OsPathJoin(PRETRAINED_PATH, filename[k]),
                         Array(cfg, run, k)),
             cfg, run, filename, abort, k + 1)

\* lines 154-170: the saves left from the k-th on, in the order train data,
\* train labels, validation data, validation labels.  abort is <<>> for a run
\* that completes and <<n>> for one that dies after n of its saves.
RECURSIVE SaveFrom(_, _, _, _, _, _)
SaveFrom(st, cfg, run, filename, abort, k) ==
    IF abort = <<k - 1>> THEN [st EXCEPT !.outcome = "aborted"]
    ELSE IF k > 4 THEN st
    ELSE SaveFrom(NpSave(st, OsPathJoin(PRETRAINED_PATH, filename[k]),
                         Array(cfg, run, k)),
                  cfg, run, filename, abort, k + 1)

\* make_pretrained_weights, were the backbone built only before the validation
\* predict (after the two training saves)
MakeWeightsLateBackbone(st, cfg, abort) ==
    LET filename == make_pretrained_filenames(cfg.dataset, cfg.generator, cfg.model,
                                              cfg.n_img, cfg.img_size, FALSE)
        run == st.runs + 1
        started == [st EXCEPT !.runs = run, !.made = st.made + 1]
        datagen == get_image_generator(cfg.generator)
        base_model == get_pretrained_model(cfg.model, cfg.img_size, ImageDataFormat)
        train == NpSave(NpSave(started,
                               OsPathJoin(PRETRAINED_PATH, filename[1]),
                               Array(cfg, run, 1)),
                        OsPathJoin(PRETRAINED_PATH, filename[2]), Array(cfg, run, 2))
    IN  IF datagen.raised # "none" THEN [started EXCEPT !.outcome = datagen.raised]
        ELSE IF abort \in {<<0>>, <<1>>}
        THEN SaveFrom(started, cfg, run, filename, abort, 1)
        ELSE IF base_model.raised # "none"
        THEN [train EXCEPT !.outcome = base_model.raised]
        ELSE SaveFrom(train, cfg, run, filename, abort, 3)

make_pretrained_weights(st, cfg, abort) ==
    LET filename == make_pretrained_filenames(cfg.dataset, cfg.generator, cfg.model,
                                              cfg.n_img, cfg.img_size, FALSE)
        run == st.runs + 1
        started == [st EXCEPT !.runs = run, !.made = st.made + 1]
        datagen == get_image_generator(cfg.generator)
        base_model == get_pretrained_model(cfg.model, cfg.img_size, ImageDataFormat)
    IN  IF datagen.raised # "none" THEN [started EXCEPT !.outcome = datagen.raised]
        ELSE IF base_model.raised # "none"
        THEN [started EXCEPT !.outcome = base_model.raised]
        ELSE SaveFrom(started, cfg, run, filename, abort, 1)

OsPathExists(fs, path) == path \in DOMAIN fs

\* lines 176-179: one iteration of the loop over the four names
CheckName(st, cfg, abort, name) ==
    IF ~OsPathExists(st.fs, OsPathJoin(PRETRAINED_PATH, name))
    THEN make_pretrained_weights(st, cfg, abort)
    ELSE st

RECURSIVE CheckNames(_, _, _, _, _)
CheckNames(st, cfg, abort, filenames, k) ==
    IF k > Len(filenames) \/ st.outcome # "ok" THEN st
    ELSE CheckNames(CheckName(st, cfg, abort, filenames[k]),
                    cfg, abort, filenames, k + 1)

\* the four loads, were the two middle names unpacked in the other order
LoadAllSwapped(fs, fpaths) ==
    <<fs[fpaths[1]], fs[fpaths[3]], fs[fpaths[2]], fs[fpaths[4]]>>

\* lines 181-185, 193: np.load of the four paths, returned in this order
LoadAll(fs, fpaths) ==
    LET x_train_fpath == fpaths[1]
        y_train_fpath == fpaths[2]
        x_valid_fpath == fpaths[3]
        y_valid_fpath == fpaths[4]
    IN  <<fs[x_train_fpath], fs[y_train_fpath], fs[x_valid_fpath], fs[y_valid_fpath]>>

get_pretrained_weights(fs, runsBefore, cfg, abort) ==
    LET filenames == make_pretrained_filenames(cfg.dataset, cfg.generator, cfg.model,
                                               cfg.n_img, cfg.img_size, TRUE)
        fpaths == [k \in 1..4 |-> OsPathJoin(PRETRAINED_PATH, filenames[k])]
        st0 == [fs |-> fs, runs |-> runsBefore, made |-> 0, wrote |-> {},
                outcome |-> "ok"]
        st == CheckNames(st0, cfg, abort, filenames, 1)
    IN  IF st.outcome # "ok"
        THEN [fs |-> st.fs, runs |-> st.runs, made |-> st.made, wrote |-> st.wrote,
              outcome |-> st.outcome, result |-> <<>>]
        ELSE IF \E k \in 1..4 : ~OsPathExists(st.fs, fpaths[k])
        THEN [fs |-> st.fs, runs |-> st.runs, made |-> st.made, wrote |-> st.wrote,
              outcome |-> "FileNotFoundError", result |-> <<>>]
        ELSE [fs |-> st.fs, runs |-> st.runs, made |-> st.made, wrote |-> st.wrote,
              outcome |-> "returned", result |-> LoadAll(st.fs, fpaths)]

-----------------------------------------------------------------------------
(* The calls explored.                                                     *)

Cfg(d, g, c, m, n, s) ==
    [dataset |-> d, generator |-> g, class_mode |-> c, model |-> m,
     n_img |-> n, img_size |-> s]

\* the defaults of get_pretrained_weights
DefaultCfg == Cfg("catdog", "random", "binary", "mobilenet", 10, <<224, 224>>)

\* the default call and the calls that differ from it in one argument; three of
\* them name an augmentation kind or a backbone the helpers do not know
Configs ==
    { DefaultCfg,
      [DefaultCfg EXCEPT !.dataset = "birds"],
      [DefaultCfg EXCEPT !.generator = "very-random"],
      [DefaultCfg EXCEPT !.generator = "randomly"],
      [DefaultCfg EXCEPT !.class_mode = "sparse"],
      [DefaultCfg EXCEPT !.model = "vgg16"],
      [DefaultCfg EXCEPT !.model = "resnet50"],
      [DefaultCfg EXCEPT !.generator = "randomly", !.model = "resnet50"],
      [DefaultCfg EXCEPT !.n_img = 100],
      [DefaultCfg EXCEPT !.img_size = <<128, 128>>] }

ValidCfg(cfg) == cfg.generator \in GeneratorKinds /\ cfg.model \in possible_names

\* the four paths get_pretrained_weights expects for cfg
Expected(cfg) ==
    LET filenames == make_pretrained_filenames(cfg.dataset, cfg.generator, cfg.model,
                                               cfg.n_img, cfg.img_size, TRUE)
    IN  [k \in 1..4 |-> OsPathJoin(PRETRAINED_PATH, filenames[k])]

EmptyFs == [p \in {} |-> Array(DefaultCfg, 0, 1)]

NoCall ==
    [fn |-> "none", cfg |-> DefaultCfg, abort |-> <<>>, outcome |-> "none",
     made |-> 0, wrote |-> {}, pre |-> EmptyFs, result |-> <<>>]

Idle == [fn |-> "none"]

\* one call of get_pretrained_weights, start to end
Call(cfg, abort) ==
    /\ runs < MaxRuns
    /\ LET r == get_pretrained_weights(files, runs, cfg, abort)
       IN  /\ files' = r.fs
           /\ runs' = r.runs
           /\ last' = [fn |-> "get_pretrained_weights", cfg |-> cfg,
                       abort |-> abort, outcome |-> r.outcome,
                       made |-> r.made, wrote |-> r.wrote, pre |-> files,
                       result |-> r.result]
    /\ UNCHANGED call

\* the defaults of make_pretrained_weights
MakeDefaultCfg == Cfg("catdog", "random", "binary", "vgg16", 100, <<224, 224>>)

\* one call of make_pretrained_weights itself, not through
\* get_pretrained_weights: it looks at no file before it saves
CallMake(cfg, abort) ==
    /\ runs < MaxRuns
    /\ LET st0 == [fs |-> files, runs |-> runs, made |-> 0, wrote |-> {},
                   outcome |-> "ok"]
           st == make_pretrained_weights(st0, cfg, abort)
       IN  /\ files' = st.fs
           /\ runs' = st.runs
           /\ last' = [fn |-> "make_pretrained_weights", cfg |-> cfg,
                       abort |-> abort,
                       outcome |-> IF st.outcome = "ok" THEN "returned"
                                   ELSE st.outcome,
                       made |-> st.made, wrote |-> st.wrote, pre |-> files,
                       result |-> <<>>]
    /\ UNCHANGED call

\* calls one after another, from an empty cache directory, none dying
Init ==
    /\ files = EmptyFs
    /\ runs = 0
    /\ last = NoCall
    /\ call = Idle

CallCompletes == \E cfg \in Configs : Call(cfg, <<>>)

Next == CallCompletes

Spec == Init /\ [][Next]_vars

\* the same calls, from a cache directory that holds any subset of the default
\* call's four files (left by earlier processes, or after files were removed)
InitAnyCache ==
    /\ \E present \in SUBSET (1..4) :
          files = [p \in {Expected(DefaultCfg)[k] : k \in present} |->
                     Array(DefaultCfg, 0,
                           CHOOSE k \in present : Expected(DefaultCfg)[k] = p)]
    /\ runs = 0
    /\ last = NoCall
    /\ call = Idle

SpecAnyCache == InitAnyCache /\ [][Next]_vars

\* calls one after another from an empty cache directory, where a run of
\* make_pretrained_weights may die before, between or after its saves
AbortConfigs ==
    { DefaultCfg,
      [DefaultCfg EXCEPT !.class_mode = "sparse"],
      [DefaultCfg EXCEPT !.model = "vgg16"],
      [DefaultCfg EXCEPT !.model = "resnet50"] }

CallUndisturbed == \E cfg \in AbortConfigs : Call(cfg, <<>>)

CallDies == \E cfg \in AbortConfigs, n \in 0..4 : Call(cfg, <<n>>)

NextAbort == CallUndisturbed \/ CallDies

SpecAbort == Init /\ [][NextAbort]_vars

\* the same, with make_pretrained_weights also called on its own
DirectConfigs == {DefaultCfg, MakeDefaultCfg, [DefaultCfg EXCEPT !.model = "resnet50"]}

MakeUndisturbed == \E cfg \in DirectConfigs : CallMake(cfg, <<>>)

MakeDies == \E cfg \in DirectConfigs, n \in 0..4 : CallMake(cfg, <<n>>)

NextDirect == CallUndisturbed \/ CallDies \/ MakeUndisturbed \/ MakeDies

SpecDirect == Init /\ [][NextDirect]_vars

-----------------------------------------------------------------------------
(* Calls of the helpers and of the model builders, on arguments drawn from  *)
(* small sets.  The functions keep no state: a behaviour is one call.      *)

SeqsUpTo(S, n) == UNION {[1..m -> S] : m \in 0..n}

InputDims == {1, 16}
LayerSizes == {2, 8}
ActivationNames == {"relu", "tanh"}
DropoutRates == {0, 500}

ActivationsArgs ==
    {[str |-> TRUE, name |-> a, list |-> <<>>] : a \in ActivationNames}
        \cup {[str |-> FALSE, name |-> "", list |-> l] :
                 l \in SeqsUpTo(ActivationNames, MaxLayers)}

DropoutsArgs ==
    {[scalar |-> TRUE, rate |-> d, list |-> <<>>] : d \in DropoutRates \cup {-100}}
        \cup {[scalar |-> FALSE, rate |-> 0, list |-> l] :
                 l \in SeqsUpTo(DropoutRates, MaxLayers)}

LayerDefinitionsArgs ==
    {SizedArg(l) : l \in SeqsUpTo(LayerSizes, MaxLayers)}
        \cup {NumberArg(n) : n \in {1}}

CallCustomFc ==
    /\ call = Idle
    /\ \E input_dim \in InputDims, layer_definitions \in LayerDefinitionsArgs,
          activations \in ActivationsArgs, dropouts \in DropoutsArgs :
          LET ret == custom_fc_model(input_dim, layer_definitions, activations,
                                     dropouts)
          IN  call' = [fn |-> "custom_fc_model", input_dim |-> input_dim,
                       sized |-> layer_definitions.sized,
                       layer_definitions |-> layer_definitions.list,
                       activations |-> activations, dropouts |-> dropouts,
                       raised |-> ret.raised, model |-> ret.layers]
    /\ UNCHANGED <<files, runs, last>>

\* the repository's test, run once
RunTestCustomFc ==
    /\ call = Idle
    /\ call' = [fn |-> "test_custom_fc_model", outcome |-> test_custom_fc_model]
    /\ UNCHANGED <<files, runs, last>>

CallResnet ==
    /\ call = Idle
    /\ \E input_dim \in InputDims, output_dim \in {1, 3}, depth \in 0..MaxDepth,
          width \in LayerSizes, dropout \in DropoutRates \cup {-100} :
          call' = [fn |-> "resnet_model", input_dim |-> input_dim,
                   output_dim |-> output_dim, depth |-> depth, width |-> width,
                   activation |-> "relu", final_activation |-> "sigmoid",
                   dropout |-> dropout,
                   model |-> resnet_model(input_dim, output_dim, depth, width,
                                          "relu", "sigmoid", dropout)]
    /\ UNCHANGED <<files, runs, last>>

CallMakeOptimiser ==
    /\ call = Idle
    /\ \E name \in {"adam", "rsmprop", "sgd", "rmsprop", "Adam", ""},
          learning_rate \in {1, 100} :
          call' = [fn |-> "make_optimiser", name |-> name,
                   learning_rate |-> learning_rate,
                   ret |-> make_optimiser(name, learning_rate)]
    /\ UNCHANGED <<files, runs, last>>

CallGetPretrainedModel ==
    /\ call = Idle
    /\ \E model \in {"vgg16", "vgg19", "mobilenet", "xception", "resnet50", "VGG16", ""},
          img_size \in {<<224, 224>>, <<128, 160>>, <<224, 224, 3>>, <<224>>},
          data_format \in {"channels_first", "channels_last"} :
          call' = [fn |-> "get_pretrained_model", name |-> model,
                   img_size |-> img_size, data_format |-> data_format,
                   ret |-> get_pretrained_model(model, img_size, data_format)]
    /\ UNCHANGED <<files, runs, last>>

CallGetImageGenerator ==
    /\ call = Idle
    /\ \E kind \in {"random", "very-random", "not-random", "randomly", "none", ""} :
          call' = [fn |-> "get_image_generator", name |-> kind,
                   ret |-> get_image_generator(kind)]
    /\ UNCHANGED <<files, runs, last>>

NextCalls ==
    \/ CallCustomFc
    \/ RunTestCustomFc
    \/ CallResnet
    \/ CallMakeOptimiser
    \/ CallGetPretrainedModel
    \/ CallGetImageGenerator

SpecCalls == Init /\ [][NextCalls]_vars

-----------------------------------------------------------------------------
(* The claims about the model builders and the helpers.                    *)

IsDense(layer) == layer.class = "Dense"

IsDropout(layer) == layer.class = "Dropout"

DenseLayers(model) == SelectSeq(model, IsDense)

\* custom_fc_model was given a list as layer_definitions
FcCalled == call.fn = "custom_fc_model" /\ call.sized

HasWeights(shapes) == shapes # <<>>

\* every list argument has one entry per layer
PerLayerArgs ==
    /\ call.activations.str \/ Len(call.activations.list) = Len(call.layer_definitions)
    /\ call.dropouts.scalar \/ Len(call.dropouts.list) = Len(call.layer_definitions)

\* the lengths of the activations and dropouts as custom_fc_model is given them
GivenActivations ==
    IF call.activations.str THEN Len(call.layer_definitions)
    ELSE Len(call.activations.list)

GivenDropouts ==
    IF call.dropouts.scalar THEN GivenActivations ELSE Len(call.dropouts.list)

ActivationOf(i) ==
    IF call.activations.str THEN call.activations.name ELSE call.activations.list[i]

RateOf(i) ==
    IF call.dropouts.scalar THEN call.dropouts.rate ELSE call.dropouts.list[i]

\* C3: for every input_dim and non-empty list of sizes n_1..n_k, the model has
\* a dense layer per size, the i-th with a weight matrix of shape
\* (n_(i-1), n_i), n_0 being input_dim, and a bias vector of length n_i.
C3_WeightShapesChain ==
    (FcCalled /\ call.layer_definitions # <<>> /\ PerLayerArgs)
        => /\ call.raised = "none"
           /\ SelectSeq(ModelWeightShapes(call.model), HasWeights)
                = [i \in 1..Len(call.layer_definitions) |->
                     << <<IF i = 1 THEN call.input_dim
                                   ELSE call.layer_definitions[i - 1],
                          call.layer_definitions[i]>>,
                        <<call.layer_definitions[i]>> >>]
           /\ \A p \in 1..Len(call.model) :
                 HasWeights(ModelWeightShapes(call.model)[p]) <=> IsDense(call.model[p])

\* C3 witness: three layers of sizes 8, 2, 8 on a 16-dimensional input, with
\* the default activations and dropouts.
C3_Witness ==
    /\ FcCalled
    /\ call.input_dim = 16
    /\ call.layer_definitions = <<8, 2, 8>>
    /\ call.activations = DefaultActivations
    /\ call.dropouts = DefaultDropouts
    /\ ModelWeightShapes(call.model)[2] = << <<8, 2>>, <<2>> >>

\* C4: custom_fc_model inserts one dense layer per entry of layer_definitions,
\* in order, the i-th with layer_definitions[i] units and the i-th activation,
\* whether activations and dropouts are given as one value for all layers or
\* as a list with an entry per layer; the zip of the loop makes the count the
\* shortest of the lengths given.
C4_OneDenseLayerPerEntry ==
    FcCalled
        => /\ Len(DenseLayers(call.model))
                = Min(Len(call.layer_definitions), Min(GivenActivations, GivenDropouts))
           /\ PerLayerArgs
                => /\ Len(DenseLayers(call.model)) = Len(call.layer_definitions)
                   /\ \A i \in 1..Len(call.layer_definitions) :
                         /\ DenseLayers(call.model)[i].units = call.layer_definitions[i]
                         /\ DenseLayers(call.model)[i].activation = ActivationOf(i)

\* C4 witness: three layers, each with its own activation and dropout rate.
C4_Witness ==
    /\ FcCalled
    /\ Len(call.layer_definitions) = 3
    /\ ~call.activations.str
    /\ call.activations.list = <<"relu", "tanh", "relu">>
    /\ ~call.dropouts.scalar
    /\ Len(call.dropouts.list) = 3
    /\ Len(DenseLayers(call.model)) = 3

\* the number of dense layers among the first p layers
RECURSIVE DenseUpTo(_, _)
DenseUpTo(model, p) ==
    IF p = 0 THEN 0
    ELSE DenseUpTo(model, p - 1) + (IF IsDense(model[p]) THEN 1 ELSE 0)

\* C7: a dropout layer follows the i-th dense layer exactly when the rate
\* configured for layer i is above 0, and it carries that rate; with the
\* default dropouts=0.0 the model has no dropout layer.
C7_DropoutIffPositiveRate ==
    FcCalled
        => /\ \A p \in 1..Len(call.model) :
                 /\ IsDense(call.model[p])
                      => LET i == DenseUpTo(call.model, p)
                             followed == /\ p < Len(call.model)
                                         /\ IsDropout(call.model[p + 1])
                         IN  /\ followed <=> RateOf(i) > 0
                             /\ followed => call.model[p + 1].rate = RateOf(i)
                 /\ IsDropout(call.model[p]) => p > 1 /\ IsDense(call.model[p - 1])
           /\ call.dropouts = DefaultDropouts
                => \A p \in 1..Len(call.model) : ~IsDropout(call.model[p])

\* C7 witness: rates 0.5, 0 and 0.5 for three layers give dropout after the
\* first and the third dense layer only.
C7_Witness ==
    /\ FcCalled
    /\ Len(call.layer_definitions) = 3
    /\ call.activations.str
    /\ call.dropouts.list = <<500, 0, 500>>
    /\ Len(call.model) = 5
    /\ IsDropout(call.model[2])
    /\ IsDense(call.model[3])
    /\ IsDense(call.model[4])

ResnetCalled == call.fn = "resnet_model"

NodesOf(class) ==
    {p \in 1..Len(call.model.nodes) : call.model.nodes[p].layer.class = class}

\* C8: for depth >= 0 the model is an input dense layer of width units,
\* depth // 2 skip blocks (a dense layer, an Add of the block's input with its
\* output, a second dense layer, a dropout layer iff dropout > 0) and an output
\* dense layer of output_dim units with final_activation: 2 + 2*(depth // 2)
\* dense layers, an odd depth builds what depth - 1 builds, and there is a skip
\* connection only from depth 2 on.
C8_ResnetStructure ==
    (ResnetCalled /\ call.depth >= 0)
        => LET nodes == call.model.nodes
               blocks == call.depth \div 2
               size == IF call.dropout > 0 THEN 4 ELSE 3
               hidden == [class |-> "Dense", units |-> call.width,
                          activation |-> call.activation]
           IN  /\ Len(nodes) = 3 + blocks * size
               /\ nodes[1].layer = [class |-> "Input", shape |-> <<call.input_dim>>]
               /\ call.model.input = 1
               /\ nodes[2] = [layer |-> hidden, inputs |-> <<1>>]
               /\ \A j \in 0..(blocks - 1) :
                     LET p == 3 + j * size
                     IN  /\ nodes[p] = [layer |-> hidden, inputs |-> <<p - 1>>]
                         /\ nodes[p + 1] = [layer |-> [class |-> "Add"],
                                            inputs |-> <<p - 1, p>>]
                         /\ nodes[p + 2] = [layer |-> hidden, inputs |-> <<p + 1>>]
                         /\ call.dropout > 0
                              => nodes[p + 3]
                                   = [layer |-> [class |-> "Dropout",
                                                 rate |-> call.dropout],
                                      inputs |-> <<p + 2>>]
               /\ nodes[Len(nodes)]
                     = [layer |-> [class |-> "Dense", units |-> call.output_dim,
                                   activation |-> call.final_activation],
                        inputs |-> <<Len(nodes) - 1>>]
               /\ call.model.output = Len(nodes)
               /\ Cardinality(NodesOf("Dense")) = 2 + 2 * blocks
               /\ Cardinality(NodesOf("Dropout"))
                     = (IF call.dropout > 0 THEN blocks ELSE 0)
               /\ NodesOf("Add") # {} <=> call.depth >= 2
               /\ call.depth % 2 = 1
                    => call.model
                         = resnet_model(call.input_dim, call.output_dim,
                                        call.depth - 1, call.width, call.activation,
                                        call.final_activation, call.dropout)

\* C8 witness: depth 5 with dropout builds two skip blocks and six dense layers.
C8_Witness ==
    /\ ResnetCalled
    /\ call.depth = 5
    /\ call.dropout > 0
    /\ Cardinality(NodesOf("Add")) = 2
    /\ Cardinality(NodesOf("Dense")) = 6

\* the names each helper accepts, and the class each name asks for
Accepted ==
    CASE call.fn = "make_optimiser" -> {"adam", "rsmprop", "sgd"}
      [] call.fn = "get_pretrained_model" -> {"vgg16", "vgg19", "mobilenet", "xception"}
      [] call.fn = "get_image_generator" -> {"random", "very-random", "not-random"}

KindAsked ==
    [adam |-> "Adam", rsmprop |-> "RMSprop", sgd |-> "SGD",
     vgg16 |-> "VGG16", vgg19 |-> "VGG19", mobilenet |-> "MobileNet",
     xception |-> "Xception"]

HelperCalled ==
    call.fn \in {"make_optimiser", "get_pretrained_model", "get_image_generator"}

\* what a helper returns is an object (not None) of the kind asked for
ReturnsKindAsked ==
    /\ call.ret.value.class # "NoneType"
    /\ call.fn = "get_image_generator"
         => /\ call.ret.value.class = "ImageDataGenerator"
            /\ call.ret.value.horizontal_flip <=> call.name = "very-random"
            /\ call.ret.value.shear_range = 0 <=> call.name = "not-random"
    /\ call.fn # "get_image_generator" => call.ret.value.class = KindAsked[call.name]

\* C5 as stated: each helper raises ValueError exactly when its name argument
\* is outside its accepted set, before it constructs anything, and otherwise
\* returns an object (not None) of the kind asked for.
C5_HelpersValidateNames ==
    HelperCalled
        => /\ call.ret.raised = "ValueError" <=> call.name \notin Accepted
           /\ call.ret.raised \in {"ValueError", "none"}
           /\ call.ret.raised = "ValueError" => call.ret.constructed = <<>>
           /\ call.ret.raised = "none" => ReturnsKindAsked

\* C5 as amended: each helper raises ValueError whenever its name argument is
\* outside its accepted set; get_pretrained_model raises it also for an
\* accepted name when img_size does not have exactly two elements; these are
\* the only cases, nothing is constructed before the error, and otherwise the
\* helper returns an object (not None) of the kind asked for.
C5_HelpersRaiseOnNameOrSize ==
    HelperCalled
        => /\ call.ret.raised = "ValueError"
                <=> \/ call.name \notin Accepted
                    \/ /\ call.fn = "get_pretrained_model"
                       /\ Len(call.img_size) # 2
           /\ call.ret.raised \in {"ValueError", "none"}
           /\ call.ret.raised = "ValueError" => call.ret.constructed = <<>>
           /\ call.ret.raised = "none" => ReturnsKindAsked

\* C5 witness: get_pretrained_model("vgg16", (224, 224, 3)) raised ValueError
\* at the unpacking of img_size, the name being accepted.
C5_Witness ==
    /\ call.fn = "get_pretrained_model"
    /\ call.name = "vgg16"
    /\ call.img_size = <<224, 224, 3>>
    /\ call.ret.raised = "ValueError"
    /\ call.ret.constructed = <<>>

-----------------------------------------------------------------------------
(* The claims about the feature cache.                                     *)

Called == last.fn = "get_pretrained_weights"

ExpectedSet(cfg) == {Expected(cfg)[k] : k \in 1..4}

AllPresent(fs, cfg) == ExpectedSet(cfg) \subseteq DOMAIN fs

\* C1: whatever subset of the four expected files is there when
\* get_pretrained_weights is called with a valid configuration, if at least one
\* is missing then make_pretrained_weights runs exactly once during the call,
\* it writes all four files (those that were there too), and all four exist
\* when the call returns.
C1_MissingFileRegeneratesAllOnce ==
    (Called /\ ValidCfg(last.cfg) /\ ~AllPresent(last.pre, last.cfg))
        => /\ last.outcome = "returned"
           /\ last.made = 1
           /\ last.wrote = ExpectedSet(last.cfg)
           /\ AllPresent(files, last.cfg)
           /\ \A k \in 1..4 : files[Expected(last.cfg)[k]] = Array(last.cfg, runs, k)

\* C1 witness: the call found the two label files but neither data file, ran
\* make_pretrained_weights once and returned.
C1_Witness ==
    /\ last.outcome = "returned"
    /\ last.made = 1
    /\ DOMAIN last.pre \cap ExpectedSet(last.cfg)
           = {Expected(last.cfg)[2], Expected(last.cfg)[4]}

\* C2: when all four expected files exist as get_pretrained_weights is called,
\* make_pretrained_weights is not invoked, the call creates and modifies no
\* file, and it returns the contents of the four files in the order train
\* data, train labels, validation data, validation labels.
C2_CacheHitReadsOnly ==
    (Called /\ AllPresent(last.pre, last.cfg))
        => /\ last.outcome = "returned"
           /\ last.made = 0
           /\ last.wrote = {}
           /\ files = last.pre
           /\ last.result = [k \in 1..4 |-> last.pre[Expected(last.cfg)[k]]]
           /\ \A k \in 1..4 : last.result[k].part = k

\* C2 witness: a call that found the four files a run of an earlier call wrote.
C2_Witness ==
    /\ last.outcome = "returned"
    /\ last.made = 0
    /\ AllPresent(last.pre, last.cfg)
    /\ last.pre[Expected(last.cfg)[1]].run >= 1

\* C6: from an empty cache directory and calls of get_pretrained_weights alone,
\* a call with an unknown augmentation kind or an unknown backbone name raises
\* ValueError and leaves the cache directory as it was.
C6_InvalidConfigLeavesCache ==
    (Called /\ ~(last.cfg.generator \in {"random", "very-random", "not-random"}
                 /\ last.cfg.model \in {"vgg16", "vgg19", "mobilenet", "xception"}))
        => /\ last.outcome = "ValueError"
           /\ last.wrote = {}
           /\ files = last.pre

\* C6 witness: a call with an unknown backbone (and a known augmentation kind)
\* raised ValueError while the cache directory held files of earlier calls.
C6_Witness ==
    /\ last.outcome = "ValueError"
    /\ last.cfg.model = "resnet50"
    /\ last.cfg.generator = "random"
    /\ DOMAIN files # {}

\* C9: the arrays a call returns were generated under exactly that call's
\* configuration (dataset, generator, class_mode, model, n_img, img_size), so
\* two calls that differ in any argument never share a cache file.
C9_NamesIdentifyConfiguration ==
    (Called /\ last.outcome = "returned")
        => \A k \in 1..4 : last.result[k].cfg = last.cfg

\* C10: from an empty cache directory and calls of get_pretrained_weights one
\* after another, their runs of make_pretrained_weights allowed to die before,
\* between or after their saves, whenever all four files of a configuration exist they
\* were written by one run, and a call that returns returns four arrays of one
\* run.
C10_CompleteCacheIsOneRun ==
    /\ \A cfg \in Configs :
          AllPresent(files, cfg)
              => \A j, k \in 1..4 :
                    files[Expected(cfg)[j]].run = files[Expected(cfg)[k]].run
    /\ (Called /\ last.outcome = "returned")
          => \A j, k \in 1..4 : last.result[j].run = last.result[k].run

\* What C10 does not cover: make_pretrained_weights called on its own over a
\* complete cache and dying between its saves leaves four files of two runs,
\* which the next get_pretrained_weights returns (reached under SpecDirect).
MixedCacheReturned ==
    /\ Called
    /\ last.outcome = "returned"
    /\ last.made = 0
    /\ last.result[1].run # last.result[4].run

\* C10 witness: a call returned after regenerating over the files a run that
\* died after two saves had left.
C10_Witness ==
    /\ last.outcome = "returned"
    /\ last.made = 1
    /\ DOMAIN last.pre \cap ExpectedSet(last.cfg)
           = {Expected(last.cfg)[1], Expected(last.cfg)[2]}

====
